---- MODULE Spec2Model ----
(***************************************************************************)
(* Model of the MCP server of src/src/index.ts: the startup script that    *)
(* registers six tools, one prompt and one resource and then connects the  *)
(* transport, the dispatch of one invocation (lookup, input validation,    *)
(* handler), and every handler with its outbound calls.  Spec serves one   *)
(* invocation at a time; SpecInFlight has several in flight at once, each  *)
(* suspended on its own outbound call.                                     *)
(*                                                                         *)
(* Strings are sequences of one-character strings, so that the regular     *)
(* expressions, toLowerCase and String.replace can be computed character   *)
(* by character.  A response text is such a sequence too; a literal of     *)
(* the source is one element of it.  The Korean and the non-ASCII literals *)
(* of the source are written in ASCII, the original beside each.           *)
(* Numbers are exact fractions [n, d] with d > 0.                          *)
(***************************************************************************)
EXTENDS Integers, Sequences, FiniteSets, TLC

VARIABLES
    pc,         \* position in the top-level script of index.ts (1..Len(Script)+1)
    tools,      \* names registered with server.registerTool
    prompts,    \* names registered with server.registerPrompt
    resources,  \* names registered with server.resource
    connected,  \* server.connect has resolved
    hostOffset, \* what Date.prototype.getTimezoneOffset returns on this host (minutes)
    hfToken,    \* process.env.HF_TOKEN is set
    inv,        \* the most recent invocation: request, handler position, response
    chain,      \* where the promise chain of server.connect(...) stands
    console,    \* what the startup chain has written: console.error and console.log
    proc,       \* the process: whether it has exited, and process.exitCode
    inflight    \* the invocations in flight at once on a pipelining transport

vars ==
    <<pc, tools, prompts, resources, connected, hostOffset, hfToken, inv, chain, console,
      proc, inflight>>

-----------------------------------------------------------------------------
(* Bounds of the model *)

\* longest run of digits in a generated timezone argument
MaxDigits == 2

-----------------------------------------------------------------------------
(* JavaScript numbers and strings *)

Abs(x) == IF x < 0 THEN -x ELSE x

RECURSIVE GCD(_, _)
GCD(a, b) == IF b = 0 THEN a ELSE GCD(b, a % b)

\* the number n/d in lowest terms with a positive denominator
Norm(n, d) ==
    LET s == IF d < 0 THEN -1 ELSE 1
        g == GCD(Abs(n), Abs(d))
    IN  [n |-> (s * n) \div g, d |-> (s * d) \div g]

Whole(n) == [n |-> n, d |-> 1]

NumAdd(a, b) == Norm(a.n * b.d + b.n * a.d, a.d * b.d)
NumSub(a, b) == Norm(a.n * b.d - b.n * a.d, a.d * b.d)
NumMul(a, b) == Norm(a.n * b.n, a.d * b.d)
NumDiv(a, b) == Norm(a.n * b.d, a.d * b.n)
NumLeq(a, b) == a.n * b.d <= b.n * a.d
IsInteger(a) == a.d = 1

\* the digits after the decimal point of r/d, for a fraction that terminates
RECURSIVE FracDigits(_, _)
FracDigits(r, d) ==
    IF r = 0 THEN "" ELSE ToString((r * 10) \div d) \o FracDigits((r * 10) % d, d)

\* Number::toString of a template literal '${x}': an integer prints its digits,
\* a fraction its decimal expansion
NumberToString(a) ==
    IF a.d = 1 THEN ToString(a.n)
    ELSE (IF a.n < 0 THEN "-" ELSE "")
            \o ToString(Abs(a.n) \div a.d) \o "." \o FracDigits(Abs(a.n) % a.d, a.d)

\* String.prototype.padStart(2, '0') of String(n)
PadStart2(n) == IF Len(ToString(n)) < 2 THEN "0" \o ToString(n) ELSE ToString(n)

\* String.prototype.toLowerCase, on the letters the model uses
LowerOf(c) ==
    CASE c = "P" -> "p" [] c = "Y" -> "y" [] c = "T" -> "t" [] c = "H" -> "h"
      [] c = "O" -> "o" [] c = "N" -> "n" [] c = "S" -> "s" [] c = "E" -> "e"
      [] c = "C" -> "c" [] c = "U" -> "u" [] c = "R" -> "r" [] c = "I" -> "i"
      [] c = "G" -> "g" [] c = "J" -> "j" [] c = "A" -> "a" [] c = "V" -> "v"
      [] OTHER -> c

toLowerCase(s) == [i \in 1..Len(s) |-> LowerOf(s[i])]

-----------------------------------------------------------------------------
(* Wire values: an argument as it arrives, before validation *)

Undefined == [kind |-> "undefined", num |-> Whole(0), str |-> <<>>]
Num(a) == [kind |-> "number", num |-> a, str |-> <<>>]
Str(s) == [kind |-> "string", num |-> Whole(0), str |-> s]

\* z.string()
IsString(v) == v.kind = "string"
\* z.number()
IsNumber(v) == v.kind = "number"
\* z.enum(options)
IsEnum(v, options) == v.kind = "string" /\ v.str \in options

-----------------------------------------------------------------------------
(* Responses *)

NoResponse ==
    [kind |-> "none", code |-> "", content |-> <<>>, structuredContent |-> <<>>,
     messages |-> <<>>, manifest |-> <<>>]

\* a protocol-level error of the dispatcher
ProtocolError(code) == [NoResponse EXCEPT !.kind = "protocolError", !.code = code]

TextBlock(text) == [type |-> "text", text |-> text]

\* a return that leaves the mirror empty
TextResultUnmirrored(text) ==
    [NoResponse EXCEPT !.kind = "toolResult", !.content = <<TextBlock(text)>>]

\* return { content: [{type:'text', text}], structuredContent: { content: [{type:'text', text}] } }
TextResult(text) ==
    [NoResponse EXCEPT !.kind = "toolResult",
                       !.content = <<TextBlock(text)>>,
                       !.structuredContent = <<TextBlock(text)>>]

\* '오류: '
ERR == "ERR: "

-----------------------------------------------------------------------------
(* greet *)

KO == <<"k", "o">>
EN == <<"e", "n">>

\* greetInputSchema with the default of the README's example, 'ko'
greetInputSchemaDefaultKo(raw) ==
    [ok |-> /\ IsString(raw.name)
            /\ \/ raw.language.kind = "undefined"
               \/ IsEnum(raw.language, {KO, EN}),
     data |-> [name |-> raw.name.str,
               language |-> IF raw.language.kind = "undefined" THEN KO
                            ELSE raw.language.str]]

\* inputSchema of greet: name a string, language 'ko' | 'en', optional, default 'en'
greetInputSchema(raw) ==
    LET ok == /\ IsString(raw.name)
              /\ \/ raw.language.kind = "undefined"
                 \/ IsEnum(raw.language, {KO, EN})
    IN  [ok |-> ok,
         data |-> [name |-> raw.name.str,
                   language |-> IF raw.language.kind = "undefined" THEN EN
                                ELSE raw.language.str]]

\* '안녕하세요, ${name}님!'  :  'Hey there, ${name}! 👋 Nice to meet you!'
greetHandler(args) ==
    TextResult(IF args.language = KO
               THEN <<"annyeonghaseyo, ">> \o args.name \o <<"nim!">>
               ELSE <<"Hey there, ">> \o args.name \o <<"! (wave) Nice to meet you!">>)

-----------------------------------------------------------------------------
(* calculator *)

Operators == {<<"+">>, <<"-">>, <<"*">>, <<"/">>}

calculatorInputSchema(raw) ==
    [ok |-> IsNumber(raw.num1) /\ IsNumber(raw.num2) /\ IsEnum(raw.operator, Operators),
     data |-> [num1 |-> raw.num1.num, num2 |-> raw.num2.num, operator |-> raw.operator.str]]

\* calculatorHandler without the test for a zero divisor and with the operator
\* itself as the symbol
calculatorHandlerPlain(args) ==
    LET n1 == NumberToString(args.num1)
        n2 == NumberToString(args.num2)
        result ==
            CASE args.operator = <<"+">> -> NumberToString(NumAdd(args.num1, args.num2))
              [] args.operator = <<"-">> -> NumberToString(NumSub(args.num1, args.num2))
              [] args.operator = <<"*">> -> NumberToString(NumMul(args.num1, args.num2))
              [] args.operator = <<"/">> ->
                    IF args.num2 = Whole(0) THEN "Infinity"
                    ELSE NumberToString(NumDiv(args.num1, args.num2))
    IN  TextResult(<<n1, " ", args.operator[1], " ", n2, " = ", result>>)

\* the division sign of the source is the character U+00F7, the multiplication
\* sign U+00D7; '오류: 0으로 나눌 수 없습니다.'; '오류: 지원하지 않는 연산자입니다.'
calculatorHandler(args) ==
    LET num1 == args.num1
        num2 == args.num2
        n1 == NumberToString(num1)
        n2 == NumberToString(num2)
        resultText ==
            CASE args.operator = <<"+">> ->
                    <<n1, " + ", n2, " = ", NumberToString(NumAdd(num1, num2))>>
              [] args.operator = <<"-">> ->
                    <<n1, " - ", n2, " = ", NumberToString(NumSub(num1, num2))>>
              [] args.operator = <<"*">> ->
                    <<n1, " U+00D7 ", n2, " = ", NumberToString(NumMul(num1, num2))>>
              [] args.operator = <<"/">> ->
                    IF num2 = Whole(0)
                    THEN <<ERR, "cannot divide by zero.">>
                    ELSE <<n1, " U+00F7 ", n2, " = ", NumberToString(NumDiv(num1, num2))>>
              [] OTHER -> <<ERR, "unsupported operator.">>
    IN  TextResult(resultText)

-----------------------------------------------------------------------------
(* time *)

Digit == {"0", "1", "2", "3", "4", "5", "6", "7", "8", "9"}

\* the pattern without its closing anchor, /^UTC[+-]\d+/
timezoneRegexUnanchored(s) ==
    /\ Len(s) >= 5
    /\ SubSeq(s, 1, 3) = <<"U", "T", "C">>
    /\ s[4] \in {"+", "-"}
    /\ s[5] \in {"0", "1", "2", "3", "4", "5", "6", "7", "8", "9"}

\* the pattern of inputSchema.timezone: /^UTC[+-]\d+$/  (no flag: $ is the end
\* of the input only)
timezoneRegex(s) ==
    /\ Len(s) >= 5
    /\ SubSeq(s, 1, 3) = <<"U", "T", "C">>
    /\ s[4] \in {"+", "-"}
    /\ \A i \in 5..Len(s) : s[i] \in Digit

\* inputSchema of time
timeInputSchema(raw) ==
    [ok |-> IsString(raw.timezone) /\ timezoneRegex(raw.timezone.str),
     data |-> [timezone |-> raw.timezone.str]]

\* the length of the longest run of digits of s that starts at index i
RECURSIVE DigitRun(_, _)
DigitRun(s, i) ==
    IF i <= Len(s) /\ s[i] \in Digit THEN 1 + DigitRun(s, i + 1) ELSE 0

\* timezone.match(/^UTC([+-])(\d+)$/): null, or the two captured groups
timezoneMatch(s) ==
    LET head == Len(s) >= 4 /\ s[1] = "U" /\ s[2] = "T" /\ s[3] = "C"
                    /\ (s[4] = "+" \/ s[4] = "-")
        run == IF head THEN DigitRun(s, 5) ELSE 0
        found == head /\ run >= 1 /\ 4 + run = Len(s)
    IN  [found |-> found,
         sign |-> IF found THEN s[4] ELSE "",
         digits |-> IF found THEN SubSeq(s, 5, Len(s)) ELSE <<>>]

DigitValue(c) ==
    CASE c = "0" -> 0 [] c = "1" -> 1 [] c = "2" -> 2 [] c = "3" -> 3 [] c = "4" -> 4
      [] c = "5" -> 5 [] c = "6" -> 6 [] c = "7" -> 7 [] c = "8" -> 8 [] c = "9" -> 9

\* parseInt(digits, 10) of a non-empty run of digits
RECURSIVE parseInt(_)
parseInt(digits) ==
    IF digits = <<>> THEN 0
    ELSE 10 * parseInt(SubSeq(digits, 1, Len(digits) - 1)) + DigitValue(digits[Len(digits)])

\* getUTCFullYear, getUTCMonth() + 1, getUTCDate, getUTCHours, getUTCMinutes and
\* getUTCSeconds of the instant t, in seconds since the epoch (the source counts
\* milliseconds; the model's instants are whole seconds)
UTCFields(t) ==
    LET days == t \div 86400
        secs == t % 86400
        z    == days + 719468
        era  == z \div 146097
        doe  == z - era * 146097
        yoe  == (doe - doe \div 1460 + doe \div 36524 - doe \div 146096) \div 365
        doy  == doe - (365 * yoe + yoe \div 4 - yoe \div 100)
        mp   == (5 * doy + 2) \div 153
        m    == IF mp < 10 THEN mp + 3 ELSE mp - 9
    IN  [year |-> yoe + era * 400 + (IF m <= 2 THEN 1 ELSE 0),
         month |-> m,
         day |-> doy - (153 * mp + 2) \div 5 + 1,
         hours |-> secs \div 3600,
         minutes |-> (secs % 3600) \div 60,
         seconds |-> secs % 60]

\* '${year}-${month}-${day} ${hours}:${minutes}:${seconds}', every field but the
\* year padded to two digits
timeString(t) ==
    LET f == UTCFields(t)
    IN  <<ToString(f.year), "-", PadStart2(f.month), "-", PadStart2(f.day), " ",
          PadStart2(f.hours), ":", PadStart2(f.minutes), ":", PadStart2(f.seconds)>>

\* the handler of time; now is new Date().getTime() and tzOffset is
\* now.getTimezoneOffset().
\* '오류: 잘못된 시간대 형식입니다. UTC+숫자 또는 UTC-숫자 형식을 사용해주세요.'
\* '${timezone} 시간대의 현재 시각: ${timeString}'
timeHandler(args, now, tzOffset) ==
    LET match == timezoneMatch(args.timezone)
        sign == IF match.sign = "+" THEN 1 ELSE -1
        offsetHours == parseInt(match.digits)
        utcTime == now + tzOffset * 60
        targetTime == utcTime + offsetHours * 60 * 60 * sign
    IN  IF ~match.found
        THEN TextResult(<<ERR, "malformed timezone. Use UTC+number or UTC-number.">>)
        ELSE TextResult(args.timezone \o <<" timezone current time: ">>
                            \o timeString(targetTime))

-----------------------------------------------------------------------------
(* What an outbound call can settle to *)

\* await fetch(url): rejected with an Error, or resolved to a Response
FetchOutcomes ==
    { [kind |-> "rejected", ok |-> FALSE, status |-> 0, statusText |-> "",
       message |-> "fetch failed"],
      [kind |-> "response", ok |-> TRUE, status |-> 200, statusText |-> "OK",
       message |-> ""],
      [kind |-> "response", ok |-> FALSE, status |-> 404, statusText |-> "Not Found",
       message |-> ""],
      [kind |-> "response", ok |-> FALSE, status |-> 503,
       statusText |-> "Service Unavailable", message |-> ""] }

\* the catch block without the prefix: return text errorMessage
catchErrorNoPrefix(isError, message) ==
    TextResult(<<IF isError THEN message ELSE "an unknown error occurred.">>)

\* catch (error) { errorMessage = error instanceof Error ? error.message : '알 수 없는
\* 오류가 발생했습니다.'; return text '오류: ${errorMessage}' }
catchError(isError, message) ==
    TextResult(<<ERR, IF isError THEN message ELSE "an unknown error occurred.">>)

\* throw new Error('API 요청 실패: ${response.status} ${response.statusText}'), caught
apiRequestFailed(r) ==
    catchError(TRUE, "API request failed: " \o ToString(r.status) \o " " \o r.statusText)

-----------------------------------------------------------------------------
(* geocode *)

geocodeInputSchema(raw) ==
    [ok |-> IsString(raw.query), data |-> [query |-> raw.query.str]]

\* await response.json() of the geocoding service: a rejection (the body is no
\* JSON), a value that is no array, an array (of at most one place, limit=1)
GeocodeBodies ==
    { [kind |-> "rejected", items |-> <<>>],
      [kind |-> "object", items |-> <<>>],
      [kind |-> "array", items |-> <<>>],
      [kind |-> "array", items |-> <<[isNull |-> TRUE, lat |-> Whole(0), lon |-> Whole(0),
                                       display_name |-> <<>>]>>],
      [kind |-> "array", items |-> <<[isNull |-> FALSE, lat |-> Norm(75, 2),
                                       lon |-> Whole(127), display_name |-> <<"S">>]>>],
      [kind |-> "array", items |-> <<[isNull |-> FALSE, lat |-> Whole(-33),
                                       lon |-> Norm(-141, 2), display_name |-> <<>>]>>] }

\* the handler of geocode after 'await response.json()' has settled to body
\* '"${query}"에 대한 검색 결과를 찾을 수 없습니다.'
\* '위치: ${displayName}\n위도: ${lat}\n경도: ${lon}'
geocodeAfterJson(args, body) ==
    IF body.kind = "rejected"
    THEN catchError(TRUE, "Unexpected token in JSON")
    ELSE IF body.kind # "array" \/ Len(body.items) = 0
    THEN TextResult(<<"\"">> \o args.query \o <<"\": no search result found.">>)
    ELSE LET result == body.items[1]
             displayName == IF result.display_name # <<>> THEN result.display_name
                            ELSE args.query
         IN  IF result.isNull
             THEN catchError(TRUE, "Cannot read properties of null (reading 'lat')")
             ELSE TextResult(<<"location: ">> \o displayName
                                \o <<"\nlatitude: ", NumberToString(result.lat),
                                     "\nlongitude: ", NumberToString(result.lon)>>)

-----------------------------------------------------------------------------
(* get-weather *)

\* most days a forecast reply of the model lists
MaxDays == 3

\* the shape with the bounds of the longitude on the latitude too
getWeatherInputSchemaWideLatitude(raw) ==
    LET lat == raw.latitude
        lon == raw.longitude
        fd == raw.forecastDays
    IN  [ok |-> /\ IsNumber(lat) /\ NumLeq(Whole(-180), lat.num)
                                 /\ NumLeq(lat.num, Whole(180))
                /\ IsNumber(lon) /\ NumLeq(Whole(-180), lon.num)
                                 /\ NumLeq(lon.num, Whole(180))
                /\ \/ fd.kind = "undefined"
                   \/ /\ IsNumber(fd) /\ IsInteger(fd.num)
                      /\ NumLeq(Whole(1), fd.num) /\ NumLeq(fd.num, Whole(16)),
         data |-> [latitude |-> lat.num, longitude |-> lon.num,
                   forecastDays |-> IF fd.kind = "undefined" THEN 7 ELSE fd.num.n]]

\* inputSchema of get-weather: latitude in [-90, 90], longitude in [-180, 180],
\* forecastDays an integer in [1, 16], optional, default 7
getWeatherInputSchema(raw) ==
    LET lat == raw.latitude
        lon == raw.longitude
        fd == raw.forecastDays
    IN  [ok |-> /\ IsNumber(lat) /\ NumLeq(Whole(-90), lat.num) /\ NumLeq(lat.num, Whole(90))
                /\ IsNumber(lon) /\ NumLeq(Whole(-180), lon.num)
                                 /\ NumLeq(lon.num, Whole(180))
                /\ \/ fd.kind = "undefined"
                   \/ /\ IsNumber(fd) /\ IsInteger(fd.num)
                      /\ NumLeq(Whole(1), fd.num) /\ NumLeq(fd.num, Whole(16)),
         data |-> [latitude |-> lat.num, longitude |-> lon.num,
                   forecastDays |-> IF fd.kind = "undefined" THEN 7 ELSE fd.num.n]]

\* const weatherCodes: Record<number, string>
\* 맑음, 대체로 맑음, 부분적으로 흐림, 흐림, 안개, 서리 안개, 약한/중간/강한 이슬비,
\* 약한/강한 동결 이슬비, 약한/중간/강한 비, 약한/강한 동결 비, 약한/중간/강한 눈, 눈알,
\* 약한/중간/강한 소나기, 약한/강한 눈 소나기, 뇌우, 우박을 동반한 뇌우,
\* 강한 우박을 동반한 뇌우
weatherCodes ==
    0 :> "clear" @@ 1 :> "mainly clear" @@ 2 :> "partly cloudy" @@ 3 :> "overcast"
    @@ 45 :> "fog" @@ 48 :> "rime fog"
    @@ 51 :> "light drizzle" @@ 53 :> "moderate drizzle" @@ 55 :> "dense drizzle"
    @@ 56 :> "light freezing drizzle" @@ 57 :> "dense freezing drizzle"
    @@ 61 :> "light rain" @@ 63 :> "moderate rain" @@ 65 :> "heavy rain"
    @@ 66 :> "light freezing rain" @@ 67 :> "heavy freezing rain"
    @@ 71 :> "light snow" @@ 73 :> "moderate snow" @@ 75 :> "heavy snow"
    @@ 77 :> "snow grains"
    @@ 80 :> "light showers" @@ 81 :> "moderate showers" @@ 82 :> "violent showers"
    @@ 85 :> "light snow showers" @@ 86 :> "heavy snow showers"
    @@ 95 :> "thunderstorm" @@ 96 :> "thunderstorm with hail"
    @@ 99 :> "thunderstorm with heavy hail"

\* code && weatherCodes[code] || ... : code 0 is falsy
getWeatherDescriptionFalsyZero(code) ==
    IF code # 0 /\ code \in DOMAIN weatherCodes THEN weatherCodes[code]
    ELSE "weather code: " \o ToString(code)

\* return weatherCodes[code] || '날씨 코드: ${code}' : the entry when the table has
\* one and it is truthy (a non-empty string)
getWeatherDescription(code) ==
    IF code \in DOMAIN weatherCodes /\ weatherCodes[code] # ""
    THEN weatherCodes[code]
    ELSE "weather code: " \o ToString(code)

\* a day of a reply: its date (days since the epoch), weathercode, temperatures
\* and precipitation_sum
SampleDay(i) ==
    [time |-> 20088 + i,
     weathercode |-> <<0, 61, 4, 95>>[((i - 1) % 4) + 1],
     max |-> <<Norm(25, 2), Whole(3), Whole(-1), Whole(30)>>[((i - 1) % 4) + 1],
     min |-> <<Whole(4), Norm(-5, 2), Whole(-8), Whole(21)>>[((i - 1) % 4) + 1],
     precipitation_sum |-> <<Whole(0), Norm(13, 5), Whole(0), Whole(12)>>[((i - 1) % 4) + 1]]

\* codes a reply's current_weather carries: every code of the table and some others
CurrentCodes == DOMAIN weatherCodes \cup {-1, 4, 50, 100}

\* await response.json() of the forecast service
WeatherBodies ==
    { [kind |-> k, hasCurrent |-> FALSE, weathercode |-> 0, hasDaily |-> FALSE,
       hasArrays |-> FALSE, days |-> <<>>] : k \in {"rejected", "null", "object"} }
    \cup
    { [kind |-> "object", hasCurrent |-> TRUE, weathercode |-> c, hasDaily |-> FALSE,
       hasArrays |-> FALSE, days |-> <<>>] : c \in CurrentCodes }
    \cup
    { [kind |-> "object", hasCurrent |-> TRUE, weathercode |-> 3, hasDaily |-> TRUE,
       hasArrays |-> a, days |-> [i \in 1..n |-> SampleDay(i)]] :
            n \in 0..MaxDays, a \in BOOLEAN }

Min(a, b) == IF a < b THEN a ELSE b

\* the date of a reply as the service writes it, YYYY-MM-DD
isoDate(day) ==
    LET f == UTCFields(day * 86400)
    IN  ToString(f.year) \o "-" \o PadStart2(f.month) \o "-" \o PadStart2(f.day)

\* date = new Date(times[i]); '${date.getMonth() + 1}/${date.getDate()}' : the
\* month and the day of UTC midnight of that date, in the host's local time
dateStr(day, tzOffset) ==
    LET f == UTCFields(day * 86400 - tzOffset * 60)
    IN  ToString(f.month) \o "/" \o ToString(f.day)

\* one round of the loop over the days
\* '\n${dateStr} (${times[i]})\n', '  날씨: ${...}\n',
\* '  최고: ${maxTemps[i]}°C / 최저: ${minTemps[i]}°C\n', '  강수량: ${...} mm\n'
dayLines(d, hasArrays, tzOffset) ==
    <<"\n", dateStr(d.time, tzOffset), " (", isoDate(d.time), ")\n">>
    \o <<"  weather: ",
         IF hasArrays THEN getWeatherDescription(d.weathercode)
         ELSE "weather code: undefined", "\n">>
    \o <<"  max: ", IF hasArrays THEN NumberToString(d.max) ELSE "undefined",
         " C / min: ", IF hasArrays THEN NumberToString(d.min) ELSE "undefined", " C\n">>
    \o (IF hasArrays /\ ~NumLeq(d.precipitation_sum, Whole(0))
        THEN <<"  precipitation: ", NumberToString(d.precipitation_sum), " mm\n">>
        ELSE <<>>)

RECURSIVE dailyLoop(_, _, _, _, _)
dailyLoop(i, n, days, hasArrays, tzOffset) ==
    IF i > n THEN <<>>
    ELSE dayLines(days[i], hasArrays, tzOffset) \o dailyLoop(i + 1, n, days, hasArrays, tzOffset)

\* the handler of get-weather after 'await response.json()' has settled to data
\* '날씨 데이터를 가져올 수 없습니다.'
\* '=== 현재 날씨 ===\n', '온도: ..°C\n', '날씨: ..\n', '풍속: .. km/h\n', '풍향: ..°\n\n',
\* '=== ${forecastDays}일 예보 ===\n'
getWeatherAfterJson(args, data, tzOffset) ==
    IF data.kind = "rejected"
    THEN catchError(TRUE, "Unexpected token in JSON")
    ELSE IF data.kind = "null" \/ ~data.hasCurrent
    THEN catchError(TRUE, "cannot fetch weather data.")
    ELSE TextResult(
            <<"=== current weather ===\n",
              "temperature: ", NumberToString(Norm(37, 2)), " C\n",
              "weather: ", getWeatherDescription(data.weathercode), "\n",
              "wind speed: ", NumberToString(Whole(11)), " km/h\n",
              "wind direction: ", NumberToString(Whole(270)), " deg\n\n">>
            \o (IF data.hasDaily
                THEN <<"=== ", ToString(args.forecastDays), "-day forecast ===\n">>
                     \o dailyLoop(1, Min(Len(data.days), args.forecastDays), data.days,
                                  data.hasArrays, tzOffset)
                ELSE <<>>))

-----------------------------------------------------------------------------
(* code-review *)

\* codeReviewPromptTemplate: the text before the placeholder, the placeholder,
\* the text after it.  '다음 코드를 리뷰해주세요. ... **리뷰할 코드:**\n'''\n',
\* '\n'''\n\n위 코드에 대한 상세한 리뷰를 제공해주세요.'
TemplateHead == <<"Please review the following code. [five sections] **Code to review:**\n[fence]\n">>
Placeholder == <<"{", "c", "o", "d", "e", "}">>
TemplateTail == <<"\n[fence]\n\nPlease give a detailed review of the code above.">>
codeReviewPromptTemplate == TemplateHead \o Placeholder \o TemplateTail

\* the replacement text String.prototype.replace(pattern: string, replacement)
\* substitutes for the match: $$ is a dollar sign, $& the matched text, $ and a grave accent the
\* text before the match, $ and an apostrophe the text after it; all else is itself
\* the grave accent, U+0060
Grave == "U+0060"

RECURSIVE GetSubstitution(_, _, _, _, _)
GetSubstitution(matched, before, after, replacement, i) ==
    IF i > Len(replacement) THEN <<>>
    ELSE IF replacement[i] = "$" /\ i < Len(replacement)
                /\ replacement[i + 1] \in {"$", "&", Grave, "'"}
         THEN (CASE replacement[i + 1] = "$" -> <<"$">>
                 [] replacement[i + 1] = "&" -> matched
                 [] replacement[i + 1] = Grave -> before
                 [] replacement[i + 1] = "'" -> after)
              \o GetSubstitution(matched, before, after, replacement, i + 2)
         ELSE <<replacement[i]>>
              \o GetSubstitution(matched, before, after, replacement, i + 1)

\* codeReviewPromptTemplate.replace('{code}', code): the template has the
\* placeholder once
replaceCode(code) ==
    TemplateHead \o GetSubstitution(Placeholder, TemplateHead, TemplateTail, code, 1)
        \o TemplateTail

TYPESCRIPT == <<"t", "y", "p", "e", "s", "c", "r", "i", "p", "t">>
JAVASCRIPT == <<"j", "a", "v", "a", "s", "c", "r", "i", "p", "t">>
PYTHON == <<"p", "y", "t", "h", "o", "n">>
JAVA == <<"j", "a", "v", "a">>
GO == <<"g", "o">>
PERFORMANCE == <<"p", "e", "r", "f", "o", "r", "m", "a", "n", "c", "e">>
SECURITY == <<"s", "e", "c", "u", "r", "i", "t", "y">>
READABILITY == <<"r", "e", "a", "d", "a", "b", "i", "l", "i", "t", "y">>
CONSTRUCTOR == <<"c", "o", "n", "s", "t", "r", "u", "c", "t", "o", "r">>
PROTO == <<"_", "_", "p", "r", "o", "t", "o", "_", "_">>

\* const languageGuidelines: Record<string, string> = { typescript: ..., ... }
\* '\n\n**TypeScript 특화 검토 사항:**...' and so on
languageGuidelines ==
    TYPESCRIPT :> "\n\n**TypeScript guidelines**" @@ JAVASCRIPT :> "\n\n**JavaScript guidelines**"
    @@ PYTHON :> "\n\n**Python guidelines**" @@ JAVA :> "\n\n**Java guidelines**"
    @@ GO :> "\n\n**Go guidelines**"

\* const focusGuidelines: Record<string, string> = { performance: ..., ... }
focusGuidelines ==
    PERFORMANCE :> "\n\n**performance focus**" @@ SECURITY :> "\n\n**security focus**"
    @@ READABILITY :> "\n\n**readability focus**"

\* the properties every object literal inherits from Object.prototype whose names
\* are in lower case, each with what 'prompt += value' appends for it
ObjectPrototype ==
    CONSTRUCTOR :> "function Object() { [native code] }" @@ PROTO :> "[object Object]"

\* table[key] of an object literal: its own property, else the inherited one,
\* else undefined (rendered as the empty text, which is falsy as undefined is)
propertyGet(table, key) ==
    IF key \in DOMAIN table THEN table[key]
    ELSE IF key \in DOMAIN ObjectPrototype THEN ObjectPrototype[key]
    ELSE ""

\* if (key && table[key.toLowerCase()]) prompt += table[key.toLowerCase()]
guideline(table, key) ==
    IF key # <<>> /\ propertyGet(table, toLowerCase(key)) # ""
    THEN <<propertyGet(table, toLowerCase(key))>>
    ELSE <<>>

\* argsSchema of code-review: code a string; language and focus optional strings
codeReviewArgsSchema(raw) ==
    [ok |-> /\ IsString(raw.code)
            /\ raw.language.kind \in {"undefined", "string"}
            /\ raw.focus.kind \in {"undefined", "string"},
     data |-> [code |-> raw.code.str, language |-> raw.language.str,
               focus |-> raw.focus.str]]

\* the generator of code-review; args.language || '' and args.focus || '' make an
\* omitted argument the empty string
codeReviewHandler(args) ==
    LET prompt == replaceCode(args.code)
                    \o guideline(languageGuidelines, args.language)
                    \o guideline(focusGuidelines, args.focus)
    IN  [NoResponse EXCEPT !.kind = "promptResult",
                           !.messages = <<[role |-> "user", content |-> TextBlock(prompt)]>>]

-----------------------------------------------------------------------------
(* generate-image *)

generateImageInputSchema(raw) ==
    [ok |-> IsString(raw.prompt), data |-> [prompt |-> raw.prompt.str]]

Base64Alphabet ==
    <<"A", "B", "C", "D", "E", "F", "G", "H", "I", "J", "K", "L", "M", "N", "O", "P",
      "Q", "R", "S", "T", "U", "V", "W", "X", "Y", "Z", "a", "b", "c", "d", "e", "f",
      "g", "h", "i", "j", "k", "l", "m", "n", "o", "p", "q", "r", "s", "t", "u", "v",
      "w", "x", "y", "z", "0", "1", "2", "3", "4", "5", "6", "7", "8", "9", "+", "/">>

\* base64 that leaves the last group of one or two bytes without its padding
RECURSIVE blobToBase64Unpadded(_)
blobToBase64Unpadded(bytes) ==
    LET b1 == bytes[1]
        b2 == IF Len(bytes) >= 2 THEN bytes[2] ELSE 0
        b3 == IF Len(bytes) >= 3 THEN bytes[3] ELSE 0
        n == b1 * 65536 + b2 * 256 + b3
        c(k) == Base64Alphabet[((n \div k) % 64) + 1]
    IN  IF bytes = <<>> THEN <<>>
        ELSE IF Len(bytes) = 1 THEN <<c(262144), c(4096)>>
        ELSE IF Len(bytes) = 2 THEN <<c(262144), c(4096), c(64)>>
        ELSE <<c(262144), c(4096), c(64), c(1)>>
                \o blobToBase64Unpadded(SubSeq(bytes, 4, Len(bytes)))

\* Buffer.from(buffer).toString('base64')
RECURSIVE blobToBase64(_)
blobToBase64(bytes) ==
    LET b1 == bytes[1]
        b2 == IF Len(bytes) >= 2 THEN bytes[2] ELSE 0
        b3 == IF Len(bytes) >= 3 THEN bytes[3] ELSE 0
        n == b1 * 65536 + b2 * 256 + b3
        c(k) == Base64Alphabet[((n \div k) % 64) + 1]
    IN  IF bytes = <<>> THEN <<>>
        ELSE IF Len(bytes) = 1 THEN <<c(262144), c(4096), "=", "=">>
        ELSE IF Len(bytes) = 2 THEN <<c(262144), c(4096), c(64), "=">>
        ELSE <<c(262144), c(4096), c(64), c(1)>> \o blobToBase64(SubSeq(bytes, 4, Len(bytes)))

\* await hfClient.textToImage(...): the bytes of an image, or a rejection with an
\* Error or with a value that is no Error
ImageOutcomes ==
    { [kind |-> "rejected", isError |-> TRUE, message |-> "Invalid credentials", bytes |-> <<>>],
      [kind |-> "rejected", isError |-> FALSE, message |-> "rate limited", bytes |-> <<>>],
      [kind |-> "resolved", isError |-> FALSE, message |-> "", bytes |-> <<>>],
      [kind |-> "resolved", isError |-> FALSE, message |-> "", bytes |-> <<137>>],
      [kind |-> "resolved", isError |-> FALSE, message |-> "", bytes |-> <<137, 80>>],
      [kind |-> "resolved", isError |-> FALSE, message |-> "",
       bytes |-> <<137, 80, 78, 71, 255>>] }

\* the inner catch: apiErrorMessage = apiError instanceof Error ? apiError.message
\* : String(apiError); throw new Error('Hugging Face API 호출 실패: ${apiErrorMessage}.
\* HF_TOKEN이 올바르게 설정되어 있는지 확인해주세요.'), caught by the outer catch
imageApiFailed(r) ==
    catchError(TRUE, "Hugging Face API call failed: " \o r.message
                        \o ". Check that HF_TOKEN is set correctly.")

\* 'data:image/png;base64,${base64Data}'
dataUri(bytes) == TextResult(<<"data:image/png;base64,">> \o blobToBase64(bytes))

-----------------------------------------------------------------------------
(* server-info *)

\* serverInfo.tools of the resource's producer, by name
serverInfoTools == <<"greet", "calculator", "time", "geocode", "get-weather">>

\* the producer of server-info: serverInfo, which JSON.stringify renders
serverInfoHandler ==
    [NoResponse EXCEPT !.kind = "resourceResult", !.manifest = serverInfoTools]

-----------------------------------------------------------------------------
(* Startup: the top-level statements of index.ts, in their order *)

\* the statements with server.connect before the last two registrations
ScriptConnectsEarly ==
    << [op |-> "registerTool", name |-> "greet", uri |-> ""],
       [op |-> "registerTool", name |-> "calculator", uri |-> ""],
       [op |-> "registerTool", name |-> "time", uri |-> ""],
       [op |-> "registerTool", name |-> "geocode", uri |-> ""],
       [op |-> "registerTool", name |-> "get-weather", uri |-> ""],
       [op |-> "registerPrompt", name |-> "code-review", uri |-> ""],
       [op |-> "connect", name |-> "", uri |-> ""],
       [op |-> "registerTool", name |-> "generate-image", uri |-> ""],
       [op |-> "resource", name |-> "server-info", uri |-> "server://info"] >>

Script ==
    << [op |-> "registerTool", name |-> "greet", uri |-> ""],
       [op |-> "registerTool", name |-> "calculator", uri |-> ""],
       [op |-> "registerTool", name |-> "time", uri |-> ""],
       [op |-> "registerTool", name |-> "geocode", uri |-> ""],
       [op |-> "registerTool", name |-> "get-weather", uri |-> ""],
       [op |-> "registerPrompt", name |-> "code-review", uri |-> ""],
       [op |-> "registerTool", name |-> "generate-image", uri |-> ""],
       [op |-> "resource", name |-> "server-info", uri |-> "server://info"],
       [op |-> "connect", name |-> "", uri |-> ""] >>

\* getTimezoneOffset of the hosts of the model: UTC, UTC+9, UTC-5
HostOffsets == {0, -540, 300}

\* no outbound call has settled
Pending == [kind |-> "pending"]

\* an invocation: the request (category, name, raw arguments), the validated
\* arguments, where its handler stands, the calls it has issued, what new Date()
\* gave it, what its awaits settled to (fetched: fetch or textToImage; data:
\* response.json()), what it wrote with console.error, and its response
Idle ==
    [category |-> "", name |-> "", raw |-> <<>>, args |-> <<>>, pc |-> "idle",
     handlerRan |-> FALSE, outbound |-> <<>>, now |-> 0, fetched |-> Pending,
     data |-> Pending, stderr |-> <<>>, resp |-> NoResponse]

\* most invocations in flight at once
MaxInFlight == 2

Slots == 1..MaxInFlight

Init ==
    /\ pc = 1
    /\ tools = {}
    /\ prompts = {}
    /\ resources = {}
    /\ connected = FALSE
    /\ hostOffset \in HostOffsets
    /\ hfToken \in BOOLEAN
    /\ inv = Idle
    /\ chain = "none"
    /\ console = <<>>
    /\ proc = [exited |-> FALSE, exitCode |-> 0]
    /\ inflight = [i \in Slots |-> Idle]

registerTool ==
    /\ pc <= Len(Script)
    /\ Script[pc].op = "registerTool"
    /\ tools' = tools \cup {Script[pc].name}
    /\ pc' = pc + 1
    /\ UNCHANGED <<prompts, resources, connected, hostOffset, hfToken, inv, chain, console,
                 proc, inflight>>

registerPrompt ==
    /\ pc <= Len(Script)
    /\ Script[pc].op = "registerPrompt"
    /\ prompts' = prompts \cup {Script[pc].name}
    /\ pc' = pc + 1
    /\ UNCHANGED <<tools, resources, connected, hostOffset, hfToken, inv, chain, console,
                 proc, inflight>>

resource ==
    /\ pc <= Len(Script)
    /\ Script[pc].op = "resource"
    /\ resources' = resources \cup {[name |-> Script[pc].name, uri |-> Script[pc].uri]}
    /\ pc' = pc + 1
    /\ UNCHANGED <<tools, prompts, connected, hostOffset, hfToken, inv, chain, console,
                 proc, inflight>>

\* server.connect(new StdioServerTransport()) settles: the transport is attached
\* and the promise resolves, or the promise rejects
connect ==
    /\ pc <= Len(Script)
    /\ Script[pc].op = "connect"
    /\ \E attached \in BOOLEAN :
        /\ connected' = attached
        /\ chain' = IF attached THEN "then" ELSE "catch"
    /\ pc' = pc + 1
    /\ UNCHANGED <<tools, prompts, resources, hostOffset, hfToken, inv, console, proc,
                   inflight>>

\* .catch(console.error): the rejection is written to stderr; the callback returns
\* undefined, so the promise .catch returns is fulfilled
catchConsoleError ==
    /\ chain = "catch"
    /\ console' = Append(console, [stream |-> "stderr", line |-> "Error: connect failed"])
    /\ chain' = "then"
    /\ UNCHANGED <<pc, tools, prompts, resources, connected, hostOffset, hfToken, inv, proc,
                   inflight>>

\* .then(() => { console.log('MCP server started') })
thenServerStarted ==
    /\ chain = "then"
    /\ console' = Append(console, [stream |-> "stdout", line |-> "MCP server started"])
    /\ chain' = "settled"
    /\ UNCHANGED <<pc, tools, prompts, resources, connected, hostOffset, hfToken, inv, proc,
                   inflight>>

\* no transport is attached and the chain has settled: nothing keeps the event
\* loop alive and the process ends; index.ts never calls process.exit and never
\* assigns process.exitCode
eventLoopDrains ==
    /\ ~connected
    /\ chain = "settled"
    /\ ~proc.exited
    /\ proc' = [proc EXCEPT !.exited = TRUE]
    /\ UNCHANGED <<pc, tools, prompts, resources, connected, hostOffset, hfToken, inv, chain,
                   console, inflight>>

-----------------------------------------------------------------------------
(* Dispatch of one invocation *)

\* step 1 of invoke: the name is in the table of its category
Registered(category, name) ==
    CASE category = "tool" -> name \in tools
      [] category = "prompt" -> name \in prompts
      [] category = "resource" -> name \in {r.uri : r \in resources}

\* the input shape registered under a name
InputSchema(name, raw) ==
    CASE name = "greet" -> greetInputSchema(raw)
      [] name = "calculator" -> calculatorInputSchema(raw)
      [] name = "time" -> timeInputSchema(raw)
      [] name = "geocode" -> geocodeInputSchema(raw)
      [] name = "get-weather" -> getWeatherInputSchema(raw)
      [] name = "generate-image" -> generateImageInputSchema(raw)
      [] name = "code-review" -> codeReviewArgsSchema(raw)
      [] OTHER -> [ok |-> TRUE, data |-> raw]

\* the handler registered under a name, run up to its first await or to its
\* return: where it stands, the outbound calls it has issued, its response
Handler(name, args, now) ==
    CASE name = "greet" ->
            [pc |-> "done", outbound |-> <<>>, resp |-> greetHandler(args)]
      [] name = "calculator" ->
            [pc |-> "done", outbound |-> <<>>, resp |-> calculatorHandler(args)]
      [] name = "time" ->
            [pc |-> "done", outbound |-> <<>>, resp |-> timeHandler(args, now, hostOffset)]
      [] name = "geocode" ->
            [pc |-> "fetch", outbound |-> <<"nominatim.openstreetmap.org">>,
             resp |-> NoResponse]
      [] name = "get-weather" ->
            [pc |-> "fetch", outbound |-> <<"api.open-meteo.com">>, resp |-> NoResponse]
      [] name = "generate-image" ->
            IF ~hfToken
            THEN [pc |-> "done", outbound |-> <<>>,
                  \* 'HF_TOKEN 환경 변수가 설정되지 않았습니다.'
                  resp |-> catchError(TRUE, "HF_TOKEN environment variable is not set.")]
            ELSE [pc |-> "textToImage", outbound |-> <<"huggingface textToImage">>,
                  resp |-> NoResponse]
      [] name = "code-review" ->
            [pc |-> "done", outbound |-> <<>>, resp |-> codeReviewHandler(args)]
      [] name = "server://info" ->
            [pc |-> "done", outbound |-> <<>>, resp |-> serverInfoHandler]

\* invoke that answers an unknown name with an error text in a tool result
invokeUnknownAsText(category, name, raw, now) ==
    LET request == [Idle EXCEPT !.category = category, !.name = name, !.raw = raw,
                                !.now = now]
        parsed == InputSchema(name, raw)
        started == Handler(name, parsed.data, now)
    IN  IF ~Registered(category, name)
        THEN [request EXCEPT !.pc = "done", !.resp = TextResult(<<ERR, "not found">>)]
        ELSE IF ~parsed.ok
        THEN [request EXCEPT !.pc = "done", !.resp = ProtocolError("InvalidArgument")]
        ELSE [request EXCEPT !.args = parsed.data, !.handlerRan = TRUE,
                             !.pc = started.pc, !.outbound = started.outbound,
                             !.resp = started.resp]

\* invoke(category, name, raw_arguments): look the name up, validate the
\* arguments against the input shape, run the handler on the validated arguments
invoke(category, name, raw, now) ==
    LET request == [Idle EXCEPT !.category = category, !.name = name, !.raw = raw,
                                !.now = now]
        parsed == InputSchema(name, raw)
        started == Handler(name, parsed.data, now)
    IN  IF ~Registered(category, name)
        THEN [request EXCEPT !.pc = "done", !.resp = ProtocolError("UnknownCapability")]
        ELSE IF ~parsed.ok
        THEN [request EXCEPT !.pc = "done", !.resp = ProtocolError("InvalidArgument")]
        ELSE [request EXCEPT !.args = parsed.data, !.handlerRan = TRUE,
                             !.pc = started.pc, !.outbound = started.outbound,
                             !.resp = started.resp]

\* the transport is attached, the callbacks of the startup chain have run (they
\* are microtasks, and a request is an I/O event), and no invocation is under way
Ready == connected /\ chain = "settled" /\ inv.pc = "idle"

Frame ==
    UNCHANGED <<pc, tools, prompts, resources, connected, hostOffset, hfToken, chain, console,
                proc, inflight>>

-----------------------------------------------------------------------------
(* The arguments the model sends *)

Numbers == {Whole(-2), Whole(0), Whole(1), Norm(5, 2), Whole(4)}

NotANumber == {Undefined, Str(<<"5">>)}
NotAString == {Undefined, Num(Whole(9))}

Names == {<<"A", "l">>, <<"M">>, <<>>}

GreetArgs ==
    [name : {Str(s) : s \in Names} \cup NotAString,
     language : {Undefined, Str(KO), Str(EN), Str(<<"f", "r">>), Str(<<"K", "O">>),
                 Num(Whole(1))}]

CalculatorArgs ==
    [num1 : {Num(x) : x \in Numbers} \cup NotANumber,
     num2 : {Num(x) : x \in Numbers} \cup NotANumber,
     operator : {Str(o) : o \in Operators}
                    \cup {Str(<<"%">>), Str(<<"x">>), Str(<<"+", "+">>), Undefined,
                          Num(Whole(1))}]

\* runs of at most MaxDigits digits
DigitRuns == UNION {[1..k -> {"0", "5", "9"}] : k \in 0..MaxDigits}

Timezones ==
    { p \o s \o d \o x :
        p \in {<<"U", "T", "C">>, <<"u", "t", "c">>, <<"U", "T">>, <<>>},
        s \in {<<"+">>, <<"-">>, <<" ">>, <<>>},
        d \in DigitRuns,
        x \in {<<>>, <<"x">>, <<"\n">>} }
    \cup {<<"b", "o", "g", "u", "s">>}

TimeArgs == [timezone : {Str(tz) : tz \in Timezones} \cup NotAString]

\* instants new Date() returns, in seconds since the epoch: 1970-01-01 00:00:00,
\* 2000-02-29 11:59:59, 2025-12-31 23:59:59
Clock == {0, 951825599, 1767225599}

GeocodeArgs == [query : {Str(<<"S">>), Str(<<>>)} \cup NotAString]

GetWeatherArgs ==
    [latitude : {Num(x) : x \in {Whole(-91), Whole(-90), Norm(75, 2), Whole(90),
                                 Norm(181, 2)}} \cup NotANumber,
     longitude : {Num(x) : x \in {Whole(-181), Whole(-180), Whole(127), Whole(180),
                                  Norm(361, 2)}} \cup NotANumber,
     forecastDays : {Num(x) : x \in {Whole(-1), Whole(0), Whole(1), Whole(2), Norm(5, 2),
                                     Whole(16), Whole(17)}}
                        \cup {Undefined, Str(<<"7">>)}]

GenerateImageArgs == [prompt : {Str(<<"c", "a", "t">>)} \cup NotAString]

Codes ==
    {<<"x">>, <<>>, <<"$", "&">>, <<"a", "$", "'">>, <<"$", "$">>, <<"$", Grave>>,
     Placeholder}

Languages ==
    {TYPESCRIPT, JAVASCRIPT, PYTHON, JAVA, GO, <<"P", "y", "t", "h", "o", "n">>,
     <<"G", "O">>, <<"r", "u", "s", "t">>, <<>>, CONSTRUCTOR, PROTO,
     <<"t", "o", "S", "t", "r", "i", "n", "g">>}

Focuses ==
    {PERFORMANCE, SECURITY, READABILITY, <<"S", "e", "c", "u", "r", "i", "t", "y">>,
     <<"s", "t", "y", "l", "e">>, <<>>, CONSTRUCTOR}

CodeReviewArgs ==
    [code : {Str(c) : c \in Codes} \cup NotAString,
     language : {Str(l) : l \in Languages} \cup {Undefined, Num(Whole(1))},
     focus : {Str(f) : f \in Focuses} \cup {Undefined}]

\* names and addresses nothing is registered under
UnknownTools == {"greeter", "generate_image", "code-review", "server-info", ""}
UnknownPrompts == {"code_review", "greet"}
UnknownResources == {"server://status", "server-info"}

-----------------------------------------------------------------------------
(* Invocations *)

callGreet ==
    /\ Ready
    /\ \E raw \in GreetArgs : inv' = invoke("tool", "greet", raw, 0)
    /\ Frame

callCalculator ==
    /\ Ready
    /\ \E raw \in CalculatorArgs : inv' = invoke("tool", "calculator", raw, 0)
    /\ Frame

callTime ==
    /\ Ready
    /\ \E raw \in TimeArgs, now \in Clock : inv' = invoke("tool", "time", raw, now)
    /\ Frame

callGeocode ==
    /\ Ready
    /\ \E raw \in GeocodeArgs : inv' = invoke("tool", "geocode", raw, 0)
    /\ Frame

callGetWeather ==
    /\ Ready
    /\ \E raw \in GetWeatherArgs : inv' = invoke("tool", "get-weather", raw, 0)
    /\ Frame

callGenerateImage ==
    /\ Ready
    /\ \E raw \in GenerateImageArgs : inv' = invoke("tool", "generate-image", raw, 0)
    /\ Frame

callUnknownTool ==
    /\ Ready
    /\ \E name \in UnknownTools, raw \in GeocodeArgs \cup GenerateImageArgs :
            inv' = invoke("tool", name, raw, 0)
    /\ Frame

getPrompt ==
    /\ Ready
    /\ \E name \in {"code-review"} \cup UnknownPrompts, raw \in CodeReviewArgs :
            inv' = invoke("prompt", name, raw, 0)
    /\ Frame

readResource ==
    /\ Ready
    /\ \E uri \in {"server://info"} \cup UnknownResources :
            inv' = invoke("resource", uri, <<>>, 0)
    /\ Frame

\* an invocation v of geocode or get-weather once 'await fetch(url)' has settled
\* to r: a rejection and a response that is not ok end in the catch block
fetchSettled(v, r) ==
    IF r.kind = "rejected"
    THEN [v EXCEPT !.pc = "done", !.fetched = r, !.resp = catchError(TRUE, r.message)]
    ELSE IF ~r.ok
    THEN [v EXCEPT !.pc = "done", !.fetched = r, !.resp = apiRequestFailed(r)]
    ELSE [v EXCEPT !.pc = "json", !.fetched = r]

\* an invocation v of generate-image once 'await hfClient.textToImage(...)' has
\* settled to r: the inner catch writes console.error('Hugging Face API error:',
\* apiErrorMessage) and rethrows; a resolved image goes through blobToBase64
textToImageSettled(v, r) ==
    IF r.kind = "rejected"
    THEN [v EXCEPT !.pc = "done", !.fetched = r,
                   !.stderr = <<"Hugging Face API error:", r.message>>,
                   !.resp = imageApiFailed(r)]
    ELSE [v EXCEPT !.pc = "done", !.fetched = r, !.resp = dataUri(r.bytes)]

\* await fetch(url) of geocode settles
geocodeFetchSettles ==
    /\ inv.name = "geocode" /\ inv.pc = "fetch"
    /\ \E r \in FetchOutcomes : inv' = fetchSettled(inv, r)
    /\ Frame

\* await response.json() of geocode settles
geocodeJsonSettles ==
    /\ inv.name = "geocode" /\ inv.pc = "json"
    /\ \E body \in GeocodeBodies :
        inv' = [inv EXCEPT !.pc = "done", !.data = body,
                           !.resp = geocodeAfterJson(inv.args, body)]
    /\ Frame

\* await fetch(url) of get-weather settles
getWeatherFetchSettles ==
    /\ inv.name = "get-weather" /\ inv.pc = "fetch"
    /\ \E r \in FetchOutcomes : inv' = fetchSettled(inv, r)
    /\ Frame

\* await response.json() of get-weather settles
getWeatherJsonSettles ==
    /\ inv.name = "get-weather" /\ inv.pc = "json"
    /\ \E data \in WeatherBodies :
        inv' = [inv EXCEPT !.pc = "done", !.data = data,
                           !.resp = getWeatherAfterJson(inv.args, data, hostOffset)]
    /\ Frame

\* await hfClient.textToImage(...) settles; a resolved image is then converted
\* by await blobToBase64(imageBlob)
textToImageSettles ==
    /\ inv.name = "generate-image" /\ inv.pc = "textToImage"
    /\ \E r \in ImageOutcomes : inv' = textToImageSettled(inv, r)
    /\ Frame

\* the response of a finished invocation is sent; nothing of the invocation is kept
sendResponse ==
    /\ inv.pc = "done"
    /\ inv' = Idle
    /\ Frame

Next ==
    \/ registerTool \/ registerPrompt \/ resource \/ connect
    \/ catchConsoleError \/ thenServerStarted \/ eventLoopDrains
    \/ callGreet \/ callCalculator \/ callTime \/ callGeocode \/ callGetWeather
    \/ callGenerateImage \/ callUnknownTool \/ getPrompt \/ readResource
    \/ geocodeFetchSettles \/ geocodeJsonSettles
    \/ getWeatherFetchSettles \/ getWeatherJsonSettles
    \/ textToImageSettles
    \/ sendResponse

Spec == Init /\ [][Next]_vars

-----------------------------------------------------------------------------
(* Invocations in flight at once: a handler suspended on an await leaves the   *)
(* event loop to the other invocations, and its continuation runs when its    *)
(* own call settles                                                           *)

\* the requests the model pipelines: the tools whose handlers await
InFlightRequests ==
    { [name |-> "geocode", raw |-> [query |-> q]] :
            q \in {Str(<<"S">>), Str(<<>>), Undefined} }
    \cup
    { [name |-> "get-weather",
       raw |-> [latitude |-> Num(Norm(75, 2)), longitude |-> Num(Whole(127)),
                forecastDays |-> d]] : d \in {Num(Whole(1)), Undefined} }
    \cup
    { [name |-> "generate-image", raw |-> [prompt |-> Str(<<"c", "a", "t">>)]] }

\* the replies of the forecast service the model pipelines
InFlightWeatherBodies ==
    { b \in WeatherBodies : ~b.hasCurrent \/ (b.hasArrays /\ Len(b.days) = 1) }

\* the parameters kept in one variable for each handler, which the call of slot 1
\* has written last
argumentsShared(i) ==
    IF inflight[1].handlerRan /\ inflight[1].name = inflight[i].name
    THEN inflight[1].args ELSE inflight[i].args

\* the parameters of the handler call of slot i: ({ query }), ({ latitude,
\* longitude, forecastDays = 7 }), ({ prompt }) are bound anew at every call
arguments(i) == inflight[i].args

Others == UNCHANGED <<pc, tools, prompts, resources, connected, hostOffset, hfToken, inv,
                      chain, console, proc>>

\* a request arrives while other invocations are under way
receive(i) ==
    /\ connected /\ chain = "settled"
    /\ inflight[i].pc = "idle"
    /\ \E q \in InFlightRequests :
            inflight' = [inflight EXCEPT ![i] = invoke("tool", q.name, q.raw, 0)]
    /\ Others

\* await fetch(url) of the invocation of slot i settles
fetchSettles(i) ==
    /\ inflight[i].pc = "fetch"
    /\ \E r \in FetchOutcomes :
            inflight' = [inflight EXCEPT ![i] = fetchSettled(inflight[i], r)]
    /\ Others

\* await response.json() of the invocation of slot i settles
jsonSettles(i) ==
    /\ inflight[i].pc = "json"
    /\ \/ /\ inflight[i].name = "geocode"
          /\ \E body \in GeocodeBodies :
                inflight' = [inflight EXCEPT ![i] =
                                [@ EXCEPT !.pc = "done", !.data = body,
                                          !.resp = geocodeAfterJson(arguments(i), body)]]
       \/ /\ inflight[i].name = "get-weather"
          /\ \E data \in InFlightWeatherBodies :
                inflight' = [inflight EXCEPT ![i] =
                                [@ EXCEPT !.pc = "done", !.data = data,
                                          !.resp = getWeatherAfterJson(arguments(i), data,
                                                                       hostOffset)]]
    /\ Others

\* await hfClient.textToImage(...) of the invocation of slot i settles
imageSettles(i) ==
    /\ inflight[i].pc = "textToImage"
    /\ \E r \in ImageOutcomes :
            inflight' = [inflight EXCEPT ![i] = textToImageSettled(inflight[i], r)]
    /\ Others

\* the response of the invocation of slot i is sent
respond(i) ==
    /\ inflight[i].pc = "done"
    /\ inflight' = [inflight EXCEPT ![i] = Idle]
    /\ Others

NextInFlight ==
    \/ registerTool \/ registerPrompt \/ resource \/ connect
    \/ catchConsoleError \/ thenServerStarted \/ eventLoopDrains
    \/ \E i \in Slots : receive(i)
    \/ \E i \in Slots : fetchSettles(i)
    \/ \E i \in Slots : jsonSettles(i)
    \/ \E i \in Slots : imageSettles(i)
    \/ \E i \in Slots : respond(i)

SpecInFlight == Init /\ [][NextInFlight]_vars

-----------------------------------------------------------------------------
(* Properties *)

\* the characters of a text, as one string
RECURSIVE Flat(_)
Flat(text) == IF text = <<>> THEN "" ELSE text[1] \o Flat(Tail(text))

\* an invocation of a tool has returned from its handler
Returned(name) == inv.name = name /\ inv.pc = "done" /\ inv.handlerRan

\* the response is a returned result with one text block; its text
IsText(resp) ==
    resp.kind = "toolResult" /\ Len(resp.content) = 1 /\ resp.content[1].type = "text"
TextOf(resp) == Flat(resp.content[1].text)

SymbolOf(operator) ==
    CASE operator = <<"+">> -> "+" [] operator = <<"-">> -> "-"
      [] operator = <<"*">> -> "U+00D7" [] operator = <<"/">> -> "U+00F7"

ResultOf(num1, operator, num2) ==
    CASE operator = <<"+">> -> NumAdd(num1, num2) [] operator = <<"-">> -> NumSub(num1, num2)
      [] operator = <<"*">> -> NumMul(num1, num2) [] operator = <<"/">> -> NumDiv(num1, num2)

\* C1: for every validated calculator input, the handler returns a text: the
\* division-by-zero message when the operator is / and num2 is 0, and otherwise
\* "{num1} {symbol} {num2} = {result}" with the symbol of the operator and
\* result = num1 op num2.
C1_CalculatorText ==
    Returned("calculator") =>
        LET num1 == inv.raw.num1.num
            num2 == inv.raw.num2.num
            operator == inv.raw.operator.str
        IN  /\ IsText(inv.resp)
            /\ TextOf(inv.resp) =
                    IF operator = <<"/">> /\ num2 = Whole(0)
                    THEN ERR \o "cannot divide by zero."
                    ELSE NumberToString(num1) \o " " \o SymbolOf(operator) \o " "
                            \o NumberToString(num2) \o " = "
                            \o NumberToString(ResultOf(num1, operator, num2))

C1_Witness ==
    /\ Returned("calculator")
    /\ inv.raw.operator.str = <<"/">> /\ inv.raw.num2.num = Whole(0)
    /\ inv.raw.num1.num = Norm(5, 2)
    /\ IsText(inv.resp) /\ inv.resp.content[1].text[1] = ERR

C3_TimeShiftedUTC ==
    Returned("time") =>
        LET timezone == inv.raw.timezone.str
            N == parseInt(SubSeq(timezone, 5, Len(timezone)))
            shifted == IF timezone[4] = "+" THEN inv.now + N * 3600 ELSE inv.now - N * 3600
        IN  /\ IsText(inv.resp)
            /\ Len(ToString(UTCFields(shifted).year)) = 4
            /\ TextOf(inv.resp) = Flat(timezone) \o " timezone current time: "
                                    \o Flat(timeString(shifted))

\* the timezone pattern UTC[+-]digits, anchored at both ends
MatchesUTCPattern(s) ==
    \E n \in 1..Len(s) :
        /\ Len(s) = 4 + n
        /\ <<s[1], s[2], s[3]>> = <<"U", "T", "C">>
        /\ s[4] = "+" \/ s[4] = "-"
        /\ \A i \in 5..(4 + n) : s[i] \in Digit

\* C4: a time invocation whose timezone string does not match UTC[+-]digits
\* fails at schema validation and its handler is never executed; so no
\* invocation of time that reaches the handler takes the handler's own
\* malformed-timezone branch.
C4_MalformedTimezoneRejected ==
    (inv.category = "tool" /\ inv.name = "time" /\ inv.pc = "done") =>
        /\ (IsString(inv.raw.timezone) /\ ~MatchesUTCPattern(inv.raw.timezone.str))
                => (inv.resp = ProtocolError("InvalidArgument") /\ ~inv.handlerRan)
        /\ inv.handlerRan => (IsText(inv.resp) /\ inv.resp.content[1].text[1] # ERR)

C4_Witness ==
    /\ inv.category = "tool" /\ inv.name = "time" /\ inv.pc = "done"
    /\ inv.raw.timezone = Str(<<"b", "o", "g", "u", "s">>)
    /\ inv.resp = ProtocolError("InvalidArgument")
    /\ ~inv.handlerRan

\* the codes the weather-code table is documented to have
DocumentedCodes ==
    {0, 1, 2, 3, 45, 48, 51, 53, 55, 56, 57, 61, 63, 65, 66, 67, 71, 73, 75, 77, 80, 81,
     82, 85, 86, 95, 96, 99}

\* get-weather has returned its report of a reply that has current_weather
Reported ==
    Returned("get-weather") /\ inv.data.kind = "object" /\ inv.data.hasCurrent

\* C5: the weather-code mapping is total: the table has exactly the documented
\* codes, each of them (0 included) renders as its description of the table,
\* and every other integer code renders as "weather code: {code}".
C5_WeatherCodeTotal ==
    Reported =>
        LET code == inv.data.weathercode
            shown == inv.resp.content[1].text[6]
        IN  /\ DOMAIN weatherCodes = DocumentedCodes
            /\ code \in DocumentedCodes => shown = weatherCodes[code]
            /\ code \notin DocumentedCodes => shown = "weather code: " \o ToString(code)

C5_Witness ==
    /\ Reported
    /\ inv.data.weathercode = 0
    /\ inv.resp.content[1].text[5] = "weather: "
    /\ inv.resp.content[1].text[6] = "clear"

\* the generator of code-review has returned
Generated ==
    inv.category = "prompt" /\ inv.name = "code-review" /\ inv.pc = "done"
        /\ inv.handlerRan

\* C6: the language block is appended exactly when the lower-cased language is
\* one of typescript, javascript, python, java, go, and the focus block exactly
\* when the lower-cased focus is one of performance, security, readability;
\* for every other string, and for an omitted one, nothing is appended.
C6_GuidelinesOnlyWhenRecognized ==
    Generated =>
        LET language == toLowerCase(inv.raw.language.str)
            focus == toLowerCase(inv.raw.focus.str)
            languageBlock ==
                IF language \in {TYPESCRIPT, JAVASCRIPT, PYTHON, JAVA, GO}
                THEN <<languageGuidelines[language]>> ELSE <<>>
            focusBlock ==
                IF focus \in {PERFORMANCE, SECURITY, READABILITY}
                THEN <<focusGuidelines[focus]>> ELSE <<>>
        IN  Flat(inv.resp.messages[1].content.text)
                = Flat(replaceCode(inv.raw.code.str) \o languageBlock \o focusBlock)


\* the response is one text block that starts with the error prefix
ErrorText == IsText(inv.resp) /\ inv.resp.content[1].text[1] = ERR

DivisionByZero ==
    Returned("calculator") /\ inv.raw.operator.str = <<"/">> /\ inv.raw.num2.num = Whole(0)

EmptyGeocodingResult ==
    Returned("geocode") /\ inv.data.kind = "array" /\ inv.data.items = <<>>

\* the fetch of geocode or of get-weather was rejected, or answered with a
\* status that is not ok
UpstreamHttpFailure ==
    /\ Returned("geocode") \/ Returned("get-weather")
    /\ \/ inv.fetched.kind = "rejected"
       \/ inv.fetched.kind = "response" /\ ~inv.fetched.ok

MissingWeatherData ==
    /\ Returned("get-weather")
    /\ \/ inv.data.kind = "null"
       \/ inv.data.kind = "object" /\ ~inv.data.hasCurrent

MissingCredential == Returned("generate-image") /\ ~hfToken

ImageUpstreamFailure == Returned("generate-image") /\ inv.fetched.kind = "rejected"

\* C7 as stated: every domain-level failure of a tool (division by zero, empty
\* geocoding result, upstream HTTP failure in geocode or get-weather, missing
\* weather data, missing credential or upstream failure in generate-image) is
\* returned as a response whose only content block is a text that starts with
\* the error prefix.
C7_EveryDomainFailureIsErrorText ==
    (DivisionByZero \/ EmptyGeocodingResult \/ UpstreamHttpFailure \/ MissingWeatherData
        \/ MissingCredential \/ ImageUpstreamFailure) => ErrorText

\* C7 as amended: every such failure but the empty geocoding result is
\* returned as one text block that starts with the error prefix; the empty
\* geocoding result is returned as one text block too, the not-found message
\* that quotes the query, without the prefix.
C7_DomainFailureTexts ==
    /\ (DivisionByZero \/ UpstreamHttpFailure \/ MissingWeatherData
            \/ MissingCredential \/ ImageUpstreamFailure) => ErrorText
    /\ EmptyGeocodingResult =>
            /\ IsText(inv.resp)
            /\ TextOf(inv.resp) = "\"" \o Flat(inv.raw.query.str)
                                    \o "\": no search result found."

C7_Witness ==
    /\ Returned("get-weather")
    /\ inv.fetched.kind = "response" /\ inv.fetched.status = 503
    /\ TextOf(inv.resp) = ERR \o "API request failed: 503 Service Unavailable"

\* C8: a tool invocation under a name that is not registered yields the
\* UnknownCapability protocol error: no handler runs, no call goes out, and the
\* response carries no content.
C8_UnknownToolIsProtocolError ==
    (inv.category = "tool" /\ inv.pc # "idle" /\ inv.name \notin tools) =>
        /\ inv.pc = "done"
        /\ inv.resp = ProtocolError("UnknownCapability")
        /\ ~inv.handlerRan
        /\ inv.outbound = <<>>

C8_Witness ==
    /\ connected
    /\ inv.category = "tool" /\ inv.name = "code-review" /\ inv.pc = "done"
    /\ inv.resp = ProtocolError("UnknownCapability")
    /\ ~inv.handlerRan

InRange(v, low, high) ==
    v.kind = "number" /\ NumLeq(Whole(low), v.num) /\ NumLeq(v.num, Whole(high))

\* the raw arguments of the invocation violate the declared input shape of its tool
ShapeViolated ==
    LET raw == inv.raw
    IN  CASE inv.name = "greet" ->
                \/ raw.name.kind # "string"
                \/ raw.language.kind # "undefined" /\ raw.language \notin {Str(KO), Str(EN)}
          [] inv.name = "calculator" ->
                \/ raw.num1.kind # "number"
                \/ raw.num2.kind # "number"
                \/ raw.operator \notin {Str(<<"+">>), Str(<<"-">>), Str(<<"*">>), Str(<<"/">>)}
          [] inv.name = "time" -> raw.timezone.kind # "string"
          [] inv.name = "geocode" -> raw.query.kind # "string"
          [] inv.name = "get-weather" ->
                \/ ~InRange(raw.latitude, -90, 90)
                \/ ~InRange(raw.longitude, -180, 180)
                \/ /\ raw.forecastDays.kind # "undefined"
                   /\ ~(InRange(raw.forecastDays, 1, 16) /\ raw.forecastDays.num.d = 1)
          [] inv.name = "generate-image" -> raw.prompt.kind # "string"

\* C9: a tool invocation whose arguments violate the declared input shape
\* (missing required field, wrong type, latitude outside [-90,90], longitude
\* outside [-180,180], forecastDays not an integer or outside [1,16], operator
\* outside the four, language outside ko and en) yields the InvalidArgument
\* protocol error; the handler is not invoked and no outbound call is made.
C9_InvalidArgumentsRejected ==
    (inv.category = "tool" /\ inv.pc # "idle" /\ inv.name \in tools /\ ShapeViolated) =>
        /\ inv.pc = "done"
        /\ inv.resp = ProtocolError("InvalidArgument")
        /\ ~inv.handlerRan
        /\ inv.outbound = <<>>

C9_Witness ==
    /\ inv.category = "tool" /\ inv.name = "get-weather" /\ inv.pc = "done"
    /\ inv.raw.latitude = Num(Norm(181, 2))
    /\ inv.raw.longitude = Num(Whole(127))
    /\ inv.raw.forecastDays = Undefined
    /\ inv.resp = ProtocolError("InvalidArgument")
    /\ inv.outbound = <<>>

\* C10: every read of server-info returns a manifest whose set of tool names is
\* the set of the tools registered on the server.
C10_ManifestListsRegisteredTools ==
    (inv.category = "resource" /\ inv.name = "server://info" /\ inv.pc = "done"
            /\ inv.handlerRan) =>
        {inv.resp.manifest[i] : i \in 1..Len(inv.resp.manifest)} = tools

-----------------------------------------------------------------------------
(* Startup failure and the credential of generate-image *)

Logged(stream, line) ==
    \E k \in DOMAIN console : console[k] = [stream |-> stream, line |-> line]

\* server.connect has rejected and the rejection has been handled
ConnectFailed == ~connected /\ chain \in {"then", "settled"}

\* C11: when connecting the transport fails at startup, the failure is logged,
\* the start of the server is not reported, and the process, when it has
\* exited, has a non-zero status; while an invocation is answered, also with a
\* failure, the process has not exited.
C11_ConnectFailureExitsNonZero ==
    /\ ConnectFailed => Logged("stderr", "Error: connect failed")
    /\ ConnectFailed => ~Logged("stdout", "MCP server started")
    /\ proc.exited => ConnectFailed /\ proc.exitCode # 0
    /\ inv.pc # "idle" => ~proc.exited

\* the base64 of the images the model returns (RFC 4648)
ExpectedBase64(bytes) ==
    CASE bytes = <<>> -> ""
      [] bytes = <<137>> -> "iQ=="
      [] bytes = <<137, 80>> -> "iVA="
      [] bytes = <<137, 80, 78, 71, 255>> -> "iVBOR/8="

AllTools == {"greet", "calculator", "time", "geocode", "get-weather", "generate-image"}

\* C12: without HF_TOKEN every generate-image invocation returns the text
\* "error: HF_TOKEN environment variable is not set." and issues no call to the
\* image API, while the six tools are registered all the same and the other
\* tools answer; with the token and a resolved API call the text is
\* "data:image/png;base64," followed by the base64 of the returned bytes.
C12_GenerateImageCredential ==
    /\ (~hfToken /\ inv.name = "generate-image" /\ inv.handlerRan) =>
            /\ inv.pc = "done"
            /\ inv.outbound = <<>>
            /\ IsText(inv.resp)
            /\ TextOf(inv.resp) = ERR \o "HF_TOKEN environment variable is not set."
    /\ (~hfToken /\ connected) => tools = AllTools
    /\ (~hfToken /\ \E name \in AllTools \ {"generate-image"} : Returned(name)) =>
            IsText(inv.resp)
    /\ (hfToken /\ Returned("generate-image") /\ inv.fetched.kind = "resolved") =>
            /\ inv.outbound = <<"huggingface textToImage">>
            /\ IsText(inv.resp)
            /\ TextOf(inv.resp)
                    = "data:image/png;base64," \o ExpectedBase64(inv.fetched.bytes)

C12_Witness ==
    /\ ~hfToken /\ Returned("generate-image")
    /\ TextOf(inv.resp) = ERR \o "HF_TOKEN environment variable is not set."
    /\ inv.outbound = <<>>

-----------------------------------------------------------------------------
(* The daily breakdown, the mirror of the content, the code-review template *)

\* how many elements of a text are the token
RECURSIVE Count(_, _)
Count(text, token) ==
    IF text = <<>> THEN 0
    ELSE (IF text[1] = token THEN 1 ELSE 0) + Count(Tail(text), token)

\* a get-weather call has succeeded on a reply with a daily section
DailyReported ==
    /\ Returned("get-weather")
    /\ inv.data.kind = "object" /\ inv.data.hasCurrent /\ inv.data.hasDaily

\* the days of the reply, among those listed, whose precipitation_sum is above 0
WetDays(listed) ==
    { k \in 1..listed :
        /\ k <= Len(inv.data.days)
        /\ inv.data.hasArrays
        /\ ~NumLeq(inv.data.days[k].precipitation_sum, Whole(0)) }

\* C13: on a successful get-weather call with a daily section the breakdown has
\* exactly forecastDays day entries, the header states the number of entries
\* listed, and there is a precipitation line for exactly the listed days whose
\* precipitation_sum is above 0.
C13_DailyBreakdown ==
    DailyReported =>
        LET text == inv.resp.content[1].text
            entries == Count(text, " (")
            header == CHOOSE k \in 1..Len(text) : text[k] = "=== " /\ text[k + 2] = "-day forecast ===\n"
        IN  /\ entries = inv.args.forecastDays
            /\ text[header + 1] = ToString(entries)
            /\ Count(text, "  precipitation: ") = Cardinality(WetDays(entries))

\* C14: every response a tool handler returns, a result and an error text
\* alike, has exactly one content block, of type text, and a
\* structuredContent.content that is present and equal to content element for
\* element.
C14_StructuredContentMirrorsContent ==
    (inv.category = "tool" /\ inv.pc = "done" /\ inv.handlerRan) =>
        /\ Len(inv.resp.content) = 1
        /\ inv.resp.content[1].type = "text"
        /\ Len(inv.resp.structuredContent) = Len(inv.resp.content)
        /\ \A k \in 1..Len(inv.resp.content) :
                /\ inv.resp.structuredContent[k].type = inv.resp.content[k].type
                /\ inv.resp.structuredContent[k].text = inv.resp.content[k].text

C14_Witness ==
    /\ Returned("geocode") /\ inv.fetched.kind = "rejected"
    /\ ErrorText
    /\ inv.resp.structuredContent = inv.resp.content

\* C15: for every code string, the code-review prompt without language and
\* focus is one message of role user whose text is the template with its
\* placeholder replaced by the code string itself.
C15_CodeInsertedVerbatim ==
    (Generated /\ inv.raw.language = Undefined /\ inv.raw.focus = Undefined) =>
        /\ Len(inv.resp.messages) = 1
        /\ inv.resp.messages[1].role = "user"
        /\ Flat(inv.resp.messages[1].content.text)
                = Flat(TemplateHead \o inv.raw.code.str \o TemplateTail)

-----------------------------------------------------------------------------
(* The registry after startup, and invocations in flight at once *)

\* the statements of the script that have run
Ran(op) == {k \in 1..(pc - 1) : Script[k].op = op}

\* C16: the six tools, the prompt and the resource are registered, each under a
\* name of its own, before the transport is connected, and once it is
\* connected no step, an invocation that succeeds or fails included, adds,
\* removes or replaces an entry of the registry.
C16_RegistryFixedOnceConnected ==
    /\ [](/\ Cardinality(tools) = Cardinality(Ran("registerTool"))
          /\ Cardinality(prompts) = Cardinality(Ran("registerPrompt"))
          /\ Cardinality(resources) = Cardinality(Ran("resource")))
    /\ [](connected =>
            /\ tools = AllTools /\ Cardinality(tools) = 6
            /\ prompts = {"code-review"}
            /\ resources = {[name |-> "server-info", uri |-> "server://info"]})
    /\ [][connected => UNCHANGED <<tools, prompts, resources>>]_vars

C16_Witness ==
    /\ connected /\ tools = AllTools
    /\ inv.pc = "done" /\ inv.resp = ProtocolError("InvalidArgument")

\* what the handler of the invocation v returns, from the arguments of v and
\* from what the calls of v settled to
ResponseOf(v) ==
    CASE v.name = "geocode" ->
            IF v.fetched.kind = "rejected" THEN catchError(TRUE, v.fetched.message)
            ELSE IF ~v.fetched.ok THEN apiRequestFailed(v.fetched)
            ELSE geocodeAfterJson(v.args, v.data)
      [] v.name = "get-weather" ->
            IF v.fetched.kind = "rejected" THEN catchError(TRUE, v.fetched.message)
            ELSE IF ~v.fetched.ok THEN apiRequestFailed(v.fetched)
            ELSE getWeatherAfterJson(v.args, v.data, hostOffset)
      [] v.name = "generate-image" ->
            IF ~hfToken THEN catchError(TRUE, "HF_TOKEN environment variable is not set.")
            ELSE IF v.fetched.kind = "rejected" THEN imageApiFailed(v.fetched)
            ELSE dataUri(v.fetched.bytes)

\* C17: whatever the interleaving of the handlers suspended on their outbound
\* calls, the response of an invocation is the one its own validated arguments
\* and its own replies give, and a step of one invocation, a failure included,
\* leaves every other invocation as it was.
C17_InFlightIndependent ==
    /\ [](\A i \in Slots :
            (inflight[i].pc = "done" /\ inflight[i].handlerRan) =>
                inflight[i].resp = ResponseOf(inflight[i]))
    /\ [][\A i \in Slots :
            inflight[i]' # inflight[i] =>
                \A j \in Slots \ {i} : inflight[j]' = inflight[j]]_vars

C17_Witness ==
    /\ inflight[1].name = "geocode" /\ inflight[1].pc = "done" /\ inflight[1].handlerRan
    /\ inflight[1].args.query = <<"S">>
    /\ inflight[1].fetched.kind = "rejected"
    /\ inflight[1].resp = catchError(TRUE, "fetch failed")
    /\ inflight[2].name = "geocode" /\ inflight[2].pc = "done" /\ inflight[2].handlerRan
    /\ inflight[2].args.query = <<>>
    /\ inflight[2].data.kind = "array" /\ inflight[2].data.items = <<>>
    /\ inflight[2].resp = TextResult(<<"\"", "\": no search result found.">>)

====
